---- MODULE Spec2Model ----
(***************************************************************************)
(* Model of the vibration analysis code of the sensor frontend:            *)
(* the severity classification, calculateFFT, prepareChartData and the     *)
(* statistics code of the sensor detail page.                              *)
(*                                                                         *)
(* Numbers.  JavaScript numbers are modelled by integers in a fixed unit:  *)
(*   - a scalar vibration value and a temperature threshold are in tenths  *)
(*     where a comparison needs it (rmsTotal > 0.8, alarm_ths * 0.7);      *)
(*   - an acceleration sample is kept in ADC counts from the offset,       *)
(*     adc - 512, that is in units of 1/sensitivity G;                     *)
(*   - a spectrum magnitude (2.56 / n) * abs is kept as 256 * abs, in      *)
(*     units of 1/(100 n); a frequency i * 50 / n is kept as i * 50, in    *)
(*     units of 1/n Hz.                                                    *)
(* Every such unit is a positive factor, so order and sign are kept.       *)
(***************************************************************************)
EXTENDS Integers, Sequences, FiniteSets, TLC

VARIABLES
  sensorLastData,   \* the batch held by the page: axes, temperature, alarm_ths
  selectedAxis,     \* "H-axis" | "V-axis" | "A-axis"
  selectedUnit,     \* "Acceleration (G)" | "Acceleration (mm/s2)" | "Velocity (mm/s)"
  vibrationStats,   \* the record set by the vibration statistics effect
  tempStatus,       \* the temperature status text rendered by the page
  overall,          \* the overall statistics rendered by the first detail page
  chart,            \* the result of prepareVibrationData / prepareChartData
  timeData,         \* the argument of calculateFFT
  fft,              \* the outcome of calculateFFT
  divisors,         \* the array lengths the last handler divided by
  error,            \* the page's error state
  call,             \* a call of a conversion function: its arguments and its result
  sensorsTable,     \* the state of the SensorsTable component and its requests
  sensorListView,   \* the state of the SensorListView component and its requests
  detail            \* the requests, timers and modal state of SensorDetailPage

vars == <<sensorLastData, selectedAxis, selectedUnit, vibrationStats, tempStatus,
          overall, chart, timeData, fft, divisors, error, call,
                 sensorsTable, sensorListView, detail>>

(***************************************************************************)
(* Bounds of the model.                                                    *)
(***************************************************************************)
MaxTemp == 36
MaxLen == 7
MaxAbs == 2
MaxAxisLen == 2
MaxFFTLen == 5
MaxVelLen == 4
MaxDt == 3
AdcSpan == 6
MaxBinsLen == 6
MaxRequests == 4
MaxPage == 2
MaxSensors == 7
MaxSelects == 2
MaxSubmits == 2

(***************************************************************************)
(* Helpers.                                                                *)
(***************************************************************************)
Min(a, b) == IF a < b THEN a ELSE b

Max(a, b) == IF a > b THEN a ELSE b

Abs(x) == IF x < 0 THEN -x ELSE x

\* All sequences over S of length lo..hi.
SeqsOf(S, lo, hi) == UNION {[1..n -> S] : n \in lo..hi}

\* An axis field of the payload: an array of ADC samples or a single number.
Arr(s) == [isArray |-> TRUE, arr |-> s, num |-> 0]

Num(x) == [isArray |-> FALSE, arr |-> <<>>, num |-> x]

\* A JavaScript number c * sqrt(num / den) with c = cn / cd; cd = 0 stands for
\* an infinity of the sign of cn.
SqrtVal(cn, cd, num, den) == [nan |-> FALSE, cn |-> cn, cd |-> cd, num |-> num, den |-> den]

MinusInfinity == SqrtVal(-1, 0, 1, 1)

PlusInfinity == SqrtVal(1, 0, 1, 1)

NaN == [nan |-> TRUE, cn |-> 0, cd |-> 1, num |-> 0, den |-> 1]

\* The literal "0.000".
FixedZero == SqrtVal(1, 1, 0, 1)

IsZero(x) == ~x.nan /\ (x.cn = 0 \/ x.num = 0)

\* The result of prepareVibrationData before any render, and the frame of its
\* fields.
ChartBase ==
  [status |-> "none", hasData |-> FALSE, yAxisLabel |-> "No Data",
   timeLabels |-> <<>>, processedData |-> <<>>, sensitivity |-> 0,
   rmsValue |-> FixedZero, peakValue |-> FixedZero, peakToPeakValue |-> FixedZero,
   magnitude |-> <<>>, frequency |-> <<>>,
   freqLabels |-> <<>>, freqMagnitude |-> <<>>, pointBackgroundColor |-> <<>>,
   topPeaks |-> <<>>, divided |-> {}]

NoChart == ChartBase

\* data.datetime of the batch the last-data endpoint returns without a
\* datetime parameter.
LATEST == "latest"

\* g_scale: sensorLastData.g_scale || 16, the range the device reports.
G_SCALE_DEFAULT == 16

NoData == [h |-> Num(0), v |-> Num(0), a |-> Num(0), temperature |-> 0, alarm_ths |-> 0,
           g_scale |-> G_SCALE_DEFAULT, datetime |-> "none"]

\* useState({rms: "0.000", peak: "0.000", status: "Normal"}); source names
\* the handler that wrote the record.
InitialStats == [rms |-> [nan |-> FALSE, cn |-> 1, cd |-> 1, num |-> 0, den |-> 1],
                 peak |-> [nan |-> FALSE, cn |-> 1, cd |-> 1, num |-> 0, den |-> 1],
                 status |-> "Normal", source |-> "useState"]

NoFFT == [status |-> "none"]

NoCall == [fn |-> "none"]

\* A component that is not rendered.
Unmounted == [mounted |-> FALSE]

NoOverall == [status |-> "none", avg |-> FixedZero, rmsValue |-> FixedZero,
              peakValue |-> FixedZero, peakToPeakValue |-> FixedZero, divided |-> {}]

(***************************************************************************)
(* Severity classification.                                                *)
(***************************************************************************)
\* value > crit ? "Critical" : value > warn ? "Warning" : "Normal"
ClassifyNonStrict(value, warn, crit) ==
  IF value >= crit THEN "Critical" ELSE IF value >= warn THEN "Warning" ELSE "Normal"

Classify(value, warn, crit) ==
  IF value > crit THEN "Critical" ELSE IF value > warn THEN "Warning" ELSE "Normal"

\* rmsTotal = sqrt((hG*hG + vG*vG + aG*aG) / 3) of three scalars given in
\* tenths: 300 * rmsTotal^2.
RmsTotalSq300(hG, vG, aG) == hG * hG + vG * vG + aG * aG

\* The thresholds 0.5 and 0.8 on rmsTotal, as 300 * threshold^2.
VibWarnSq300 == 75

VibCritSq300 == 192

\* rmsTotal > 0.8 ? "Critical" : rmsTotal > 0.5 ? "Warning" : "Normal";
\* rmsTotal >= 0, so comparing rmsTotal is comparing its square.
VibrationStatus(sq300) == Classify(sq300, VibWarnSq300, VibCritSq300)

\* sensorLastData?.alarm_ths || 35
DefaultAlarmThs == 35

AlarmThs(d) == IF d.alarm_ths = 0 THEN DefaultAlarmThs ELSE d.alarm_ths

\* safeTemp > ths ? "Critical" : safeTemp > ths * 0.7 ? "Warning" : "Normal",
\* both sides of each comparison multiplied by 10.
TemperatureStatus(safeTemp, ths) == Classify(10 * safeTemp, 7 * ths, 10 * ths)

\* Math.max(Math.abs(hG), Math.abs(vG), Math.abs(aG))
PeakTotal(hG, vG, aG) == Max(Abs(hG), Max(Abs(vG), Abs(aG)))

\* The else branch of the vibration statistics effect: the axes are not
\* arrays (or h is empty), so a number is used as it is and anything else is 0.
ScalarOf(ax) == IF ax.isArray THEN 0 ELSE ax.num

ScalarStats(d) ==
  LET hG == ScalarOf(d.h)
      vG == ScalarOf(d.v)
      aG == ScalarOf(d.a)
  IN [rms |-> [nan |-> FALSE, cn |-> 1, cd |-> 1, num |-> RmsTotalSq300(hG, vG, aG), den |-> 300],
      peak |-> [nan |-> FALSE, cn |-> PeakTotal(hG, vG, aG), cd |-> 10, num |-> 1, den |-> 1],
      status |-> VibrationStatus(RmsTotalSq300(hG, vG, aG)), source |-> "scalar"]

\* The scalar payloads of the severity specification (tenths of a G).
ScalarValues == {0, 5, 6, 8, 9}

AlarmThsValues == {-10, 0, 10, 35}

Idle ==
  /\ selectedAxis = "H-axis"
  /\ selectedUnit = "Acceleration (G)"
  /\ vibrationStats = InitialStats
  /\ tempStatus = "none"
  /\ overall = NoOverall
  /\ chart = NoChart
  /\ timeData = <<>>
  /\ fft = NoFFT
  /\ divisors = {}
  /\ error = "null"
  /\ sensorsTable = Unmounted
  /\ sensorListView = Unmounted
  /\ detail = Unmounted

InitSeverity ==
  /\ \E hG \in ScalarValues, vG \in ScalarValues, aG \in ScalarValues,
        t \in 0..MaxTemp, ths \in AlarmThsValues :
       sensorLastData = [h |-> Num(hG), v |-> Num(vG), a |-> Num(aG),
                         temperature |-> t, alarm_ths |-> ths,
                         g_scale |-> G_SCALE_DEFAULT, datetime |-> LATEST]
  /\ Idle
  /\ call = NoCall

\* useEffect on sensorLastData, the branch taken when the axes are numbers.
VibrationStatsEffectScalar ==
  /\ ~(sensorLastData.h.isArray /\ sensorLastData.v.isArray /\ sensorLastData.a.isArray
       /\ Len(sensorLastData.h.arr) > 0)
  /\ vibrationStats' = ScalarStats(sensorLastData)
  /\ UNCHANGED <<sensorLastData, selectedAxis, selectedUnit, tempStatus, overall,
                 chart, timeData, fft, divisors, error, call,
                 sensorsTable, sensorListView, detail>>

\* The render of the Temperature Statistics card.
RenderTemperatureStatus ==
  /\ tempStatus' = TemperatureStatus(sensorLastData.temperature, AlarmThs(sensorLastData))
  /\ UNCHANGED <<sensorLastData, selectedAxis, selectedUnit, vibrationStats, overall,
                 chart, timeData, fft, divisors, error, call,
                 sensorsTable, sensorListView, detail>>

NextSeverity == VibrationStatsEffectScalar \/ RenderTemperatureStatus

SpecSeverity == InitSeverity /\ [][NextSeverity]_vars

(***************************************************************************)
(* calculateFFT.                                                           *)
(***************************************************************************)
\* Static sampling rate in Hz.
SAMPLING_RATE == 50

IsPow2(k) == \E e \in 0..k : 2 ^ e = k

NextPow2Above(n) ==
  IF n = 0 THEN 0 ELSE CHOOSE p \in 1..(2 * n) : IsPow2(p) /\ p > n /\ p <= 2 * n

\* Math.pow(2, Math.ceil(Math.log2(n))): 0 for n = 0 (log2(0) is -Infinity),
\* otherwise the smallest power of two that is >= n.
NextPow2(n) ==
  IF n = 0 THEN 0 ELSE CHOOSE p \in 1..(2 * n) : IsPow2(p) /\ p >= n /\ p < 2 * n

\* new FFT(size) of fft.js: "FFT size must be a power of two and bigger than 1".
FFTConstructorThrows(size) == size <= 1 \/ ~IsPow2(size)

\* The loop over the retained bins, for (let i = 0; i < halfLength; i++) with
\* halfLength = n: bin i (1-based here) gives (2.56 / n) * abs and
\* (i * SAMPLING_RATE) / n.  output[i] is the modulus of bin i of the buffer
\* that realTransform wrote.
RetainedBins(n) == n

Magnitude(n, output) == [i \in 1..RetainedBins(n) |-> 256 * output[i]]

Frequency(n) == [i \in 1..RetainedBins(n) |-> (i - 1) * SAMPLING_RATE]

FFTThrew == [status |-> "threw", constructed |-> TRUE, magnitude |-> <<>>, frequency |-> <<>>,
             nextPow2 |-> 0, outputLength |-> 0, reads |-> {}]

\* The indices output[2 * i] and output[2 * i + 1] the loop reads, i < halfLength.
OutputReads(n) == UNION {{2 * i, 2 * i + 1} : i \in 0..(RetainedBins(n) - 1)}

\* calculateFFT(timeData), given the buffer the library's transform fills.
\* nextPow2 is the size asked of the constructor, outputLength the length of
\* new Float64Array(nextPow2 * 2).
CalculateFFT(td, output) ==
  LET nextPow2 == NextPow2(Len(td))
  IN IF FFTConstructorThrows(nextPow2)
     THEN [FFTThrew EXCEPT !.nextPow2 = nextPow2]
     ELSE [status |-> "ok", constructed |-> TRUE,
           magnitude |-> Magnitude(Len(td), output),
           frequency |-> Frequency(Len(td)),
           nextPow2 |-> nextPow2, outputLength |-> nextPow2 * 2,
           reads |-> OutputReads(Len(td))]

\* The buffers realTransform can leave for a transform of the given size, as
\* the modulus of each of its bins.
Outputs(size) == [1..size -> 0..MaxAbs]

SampleValues == {0, 1}

InitFFT ==
  /\ timeData \in SeqsOf(SampleValues, 0, MaxFFTLen)
  /\ sensorLastData = NoData
  /\ selectedAxis = "H-axis"
  /\ selectedUnit = "Acceleration (G)"
  /\ vibrationStats = InitialStats
  /\ tempStatus = "none"
  /\ overall = NoOverall
  /\ chart = NoChart
  /\ fft = NoFFT
  /\ divisors = {}
  /\ error = "null"
  /\ sensorsTable = Unmounted
  /\ sensorListView = Unmounted
  /\ detail = Unmounted
  /\ call = NoCall

\* A call calculateFFT(timeData).
CalculateFFTCall ==
  /\ fft = NoFFT
  /\ \E output \in Outputs(NextPow2(Len(timeData))) :
       fft' = CalculateFFT(timeData, output)
  /\ divisors' = IF fft'.status = "ok" THEN {Len(timeData)} ELSE {}
  /\ UNCHANGED <<sensorLastData, selectedAxis, selectedUnit, vibrationStats, tempStatus,
                 overall, chart, timeData, error, call,
                 sensorsTable, sensorListView, detail>>

NextFFT == CalculateFFTCall

SpecFFT == InitFFT /\ [][NextFFT]_vars

(***************************************************************************)
(* Conversions of the samples.                                             *)
(***************************************************************************)
ADC_OFFSET == 512

SensitivityFallback16(range) ==
  CASE range = 2 -> 17367
    [] range = 4 -> 8684
    [] range = 8 -> 4342
    [] OTHER -> 2171

\* The switch on range of adcToAccelerationG; any other range is the 2G one.
Sensitivity(range) ==
  CASE range = 2 -> 17367
    [] range = 4 -> 8684
    [] range = 8 -> 4342
    [] range = 16 -> 2171
    [] OTHER -> 17367

\* (adcValue - offset) / sensitivity, as a fraction in G.
AdcToAccelerationG(adcValue, range) ==
  [num |-> adcValue - ADC_OFFSET, den |-> Sensitivity(range)]

\* The call adcToAccelerationG(adc) leaves range at its default.
DEFAULT_RANGE == 2

\* accelerationToVelocity: velocities = [0], then one push per pair of
\* neighbours, each the last velocity plus 0.5 * timeInterval * (a[i] + a[i+1]).
\* timeInterval is in hundredths of a second, so the result is in units of
\* 1 / 200 of the input's unit times a second.
AccelerationToVelocityNoSeed(accelerations, timeInterval) ==
  LET n == Max(Len(accelerations), 1) - 1
      vel[i \in 1..n] == (IF i = 1 THEN 0 ELSE vel[i - 1])
                           + timeInterval * (accelerations[i] + accelerations[i + 1])
  IN [i \in 1..n |-> vel[i]]

AccelerationToVelocityNoSum(accelerations, timeInterval) ==
  LET n == Max(Len(accelerations), 1)
  IN [i \in 1..n |->
        IF i = 1 THEN 0 ELSE timeInterval * (accelerations[i - 1] + accelerations[i])]

AccelerationToVelocityEmpty(accelerations, timeInterval) ==
  LET n == Len(accelerations)
      vel[i \in 1..n] ==
        IF i = 1 THEN 0
        ELSE vel[i - 1] + timeInterval * (accelerations[i - 1] + accelerations[i])
  IN [i \in 1..n |-> vel[i]]

AccelerationToVelocity(accelerations, timeInterval) ==
  LET n == Max(Len(accelerations), 1)
      vel[i \in 1..n] ==
        IF i = 1 THEN 0
        ELSE vel[i - 1] + timeInterval * (accelerations[i - 1] + accelerations[i])
  IN [i \in 1..n |-> vel[i]]

\* const timeInterval = 1 / SAMPLING_RATE, in hundredths of a second.
TimeInterval == 100 \div SAMPLING_RATE

Units == {"Acceleration (G)", "Acceleration (mm/s2)", "Velocity (mm/s)"}

Axes == {"H-axis", "V-axis", "A-axis"}

\* The three branches on selectedUnit of prepareChartData.  With the default
\* range every sample is a multiple of 1 / 17367 G, and the factor 9806.65 of
\* accelerationGToMmPerSecSquared is part of the unit; the numerators are kept.
ProcessedData(rawAxisData, unit) ==
  LET g == [i \in 1..Len(rawAxisData) |-> AdcToAccelerationG(rawAxisData[i], DEFAULT_RANGE).num]
  IN IF unit = "Acceleration (G)" THEN g
     ELSE IF unit = "Acceleration (mm/s2)" THEN g
     ELSE AccelerationToVelocity(g, TimeInterval)

YAxisLabel(unit) ==
  IF unit = "Acceleration (G)" THEN "G"
  ELSE IF unit = "Acceleration (mm/s2)" THEN "mm/s2"
  ELSE "mm/s"

(***************************************************************************)
(* Statistics.  A value c * sqrt(num / den) is the record                  *)
(* [cn, cd, num, den] with c = cn / cd; NaN is [nan |-> TRUE].             *)
(***************************************************************************)
RECURSIVE SumSq(_)
SumSq(s) == IF s = <<>> THEN 0 ELSE Head(s) * Head(s) + SumSq(Tail(s))

\* processedData.length > 0 ? Math.sqrt(sum of squares / processedData.length) : 0
Rms(processedData) ==
  IF Len(processedData) > 0
  THEN SqrtVal(1, 1, SumSq(processedData), Len(processedData))
  ELSE FixedZero

PeakOfRmsTimes(rms) == SqrtVal(707 * rms.cn, 1000 * rms.cd, rms.num, rms.den)

\* rms / 0.707
PeakOfRms(rms) == SqrtVal(1000 * rms.cn, 707 * rms.cd, rms.num, rms.den)

\* peak * 2
PeakToPeakOfPeak(peak) == SqrtVal(2 * peak.cn, peak.cd, peak.num, peak.den)

(***************************************************************************)
(* The top peaks of prepareChartData.                                      *)
(***************************************************************************)
TOP_PEAKS == 5

\* [...freqMagnitude.keys()].sort((a, b) => freqMagnitude[b] - freqMagnitude[a]):
\* Array.prototype.sort is stable, so a key is placed behind every key whose
\* magnitude is at least its own.  Keys are 1-based here.
InsertKeyUnstable(sorted, k, mag) ==
  LET p == Cardinality({j \in 1..Len(sorted) : mag[sorted[j]] > mag[k]})
  IN SubSeq(sorted, 1, p) \o <<k>> \o SubSeq(sorted, p + 1, Len(sorted))

InsertKey(sorted, k, mag) ==
  LET p == Cardinality({j \in 1..Len(sorted) : mag[sorted[j]] >= mag[k]})
  IN SubSeq(sorted, 1, p) \o <<k>> \o SubSeq(sorted, p + 1, Len(sorted))

RECURSIVE SortKeys(_, _)
SortKeys(k, mag) ==
  IF k = 0 THEN <<>> ELSE InsertKey(SortKeys(k - 1, mag), k, mag)

\* .slice(0, 5)
TopCountFour(m) == Min(TOP_PEAKS - 1, m)

TopCount(m) == Min(TOP_PEAKS, m)

TopIndices(freqMagnitude) ==
  SubSeq(SortKeys(Len(freqMagnitude), freqMagnitude), 1, TopCount(Len(freqMagnitude)))

\* (x * 0.707).toFixed(2) of a magnitude x = m / (100 n): the nearest
\* hundredth of 0.707 * m / (100 n), that is round(707 * m / (1000 n)).
RmsOfPeakFixed2(m, n) == (2 * 707 * m + 1000 * n) \div (2000 * n)

\* frequency.slice(1) and magnitude.slice(1): remove the DC component.
Slice1(s) == IF s = <<>> THEN <<>> ELSE Tail(s)

\* topIndices.map(idx => ({peak: freqMagnitude[idx], rms: ..., frequency: String(freqLabels[idx])})).
\* String() of a number denotes that number; idx is kept to name the bin.
TopPeaksShifted(freqMagnitude, freqLabels, n) ==
  LET top == TopIndices(freqMagnitude)
  IN [r \in 1..Len(top) |->
        [idx |-> top[r],
         peak |-> freqMagnitude[top[r]],
         rms |-> RmsOfPeakFixed2(freqMagnitude[top[r]], n),
         frequency |-> freqLabels[Max(top[r] - 1, 1)]]]

TopPeaks(freqMagnitude, freqLabels, n) ==
  LET top == TopIndices(freqMagnitude)
  IN [r \in 1..Len(top) |->
        [idx |-> top[r],
         peak |-> freqMagnitude[top[r]],
         rms |-> RmsOfPeakFixed2(freqMagnitude[top[r]], n),
         frequency |-> freqLabels[top[r]]]]

\* pointBackgroundColor: 'red' at the top indices, the default colour elsewhere.
PointBackgroundColor(freqMagnitude) ==
  LET top == TopIndices(freqMagnitude)
  IN [i \in 1..Len(freqMagnitude) |->
        IF \E r \in 1..Len(top) : top[r] = i THEN "red" ELSE "default"]

(***************************************************************************)
(* prepareChartData and prepareVibrationData.                              *)
(***************************************************************************)
\* timeLabels: (i * timeInterval).toFixed(2) with timeInterval = 1 / 50, in
\* hundredths of a second.
TimeLabels(n) == [i \in 1..n |-> (i - 1) * TimeInterval]

\* !rawAxisData || rawAxisData.length === 0
IsEmptyInputNever(rawAxisData) == FALSE

IsEmptyInput(rawAxisData) == Len(rawAxisData) = 0

\* prepareChartData(rawAxisData, selectedUnit, timeInterval), given the buffer
\* the transform of calculateFFT fills.  magnitude and frequency are the
\* spectrum it obtained; divided holds the array lengths it divided by.
PrepareChartData(rawAxisData, unit, output) ==
  IF IsEmptyInput(rawAxisData)
  THEN [ChartBase EXCEPT !.status = "empty", !.hasData = TRUE]
  ELSE
    LET processedData == ProcessedData(rawAxisData, unit)
        rms == Rms(processedData)
        peak == PeakOfRms(rms)
        peakToPeak == PeakToPeakOfPeak(peak)
        spectrum == CalculateFFT(processedData, output)
        timeChart == [ChartBase EXCEPT !.hasData = TRUE,
                        !.yAxisLabel = YAxisLabel(unit),
                        !.timeLabels = TimeLabels(Len(rawAxisData)),
                        !.processedData = processedData,
                        !.sensitivity = Sensitivity(DEFAULT_RANGE),
                        !.rmsValue = rms, !.peakValue = peak,
                        !.peakToPeakValue = peakToPeak,
                        !.divided = {Len(processedData)}]
    IN IF spectrum.status = "threw"
       THEN [ChartBase EXCEPT !.status = "threw"]
       ELSE IF Len(spectrum.magnitude) = 0 \/ Len(spectrum.frequency) = 0
       THEN [timeChart EXCEPT !.status = "ok"]
       ELSE
         LET freqLabels == Slice1(spectrum.frequency)
             freqMagnitude == Slice1(spectrum.magnitude)
         IN [timeChart EXCEPT !.status = "ok",
               !.magnitude = spectrum.magnitude,
               !.frequency = spectrum.frequency,
               !.freqLabels = freqLabels,
               !.freqMagnitude = freqMagnitude,
               !.pointBackgroundColor = PointBackgroundColor(freqMagnitude),
               !.topPeaks = IF Len(freqMagnitude) > 0
                            THEN TopPeaks(freqMagnitude, freqLabels, Len(processedData))
                            ELSE <<>>,
               !.divided = {Len(processedData)}]

\* selectedAxis === "H-axis" ? data.h : selectedAxis === "V-axis" ? data.v : data.a
RawAxisData(d, axis) ==
  IF axis = "H-axis" THEN d.h.arr ELSE IF axis = "V-axis" THEN d.v.arr ELSE d.a.arr

\* The guard of prepareVibrationData: all three axes are arrays and h is not empty.
HasVibrationData(d) ==
  d.h.isArray /\ d.v.isArray /\ d.a.isArray /\ Len(d.h.arr) # 0

\* The transform size prepareChartData will ask for.
TransformSize(d, axis, unit) ==
  IF HasVibrationData(d) /\ Len(RawAxisData(d, axis)) > 0
  THEN NextPow2(Len(ProcessedData(RawAxisData(d, axis), unit)))
  ELSE 0

PrepareVibrationData(d, axis, unit, output) ==
  IF ~HasVibrationData(d)
  THEN [ChartBase EXCEPT !.status = "noData"]
  ELSE PrepareChartData(RawAxisData(d, axis), unit, output)

\* The sample arrays of the chart specification: one alternating series per length.
ADC_HIGH == ADC_OFFSET + 100

Pattern(n) == [i \in 1..n |-> IF i % 2 = 1 THEN ADC_OFFSET ELSE ADC_HIGH]

InitChart ==
  /\ \E n \in 0..MaxLen, nv \in {0, 2}, na \in {0, 3} :
       sensorLastData = [h |-> Arr(Pattern(n)), v |-> Arr(Pattern(nv)), a |-> Arr(Pattern(na)),
                         temperature |-> 0, alarm_ths |-> 0,
                         g_scale |-> G_SCALE_DEFAULT, datetime |-> LATEST]
  /\ Idle
  /\ call = NoCall

\* A render of the page: prepareVibrationData() with the current selection.
Render ==
  /\ chart = NoChart
  /\ \E output \in Outputs(TransformSize(sensorLastData, selectedAxis, selectedUnit)) :
       chart' = PrepareVibrationData(sensorLastData, selectedAxis, selectedUnit, output)
  /\ divisors' = chart'.divided
  /\ UNCHANGED <<sensorLastData, selectedAxis, selectedUnit, vibrationStats, tempStatus,
                 overall, timeData, fft, error, call,
                 sensorsTable, sensorListView, detail>>

\* onValueChange of the axis selector: setSelectedAxis; the page renders again.
SelectAxis(axis) ==
  /\ chart # NoChart
  /\ axis # selectedAxis
  /\ selectedAxis' = axis
  /\ chart' = NoChart
  /\ divisors' = {}
  /\ UNCHANGED <<sensorLastData, selectedUnit, vibrationStats, tempStatus,
                 overall, timeData, fft, error, call,
                 sensorsTable, sensorListView, detail>>

\* onValueChange of the unit selector: setSelectedUnit; the page renders again.
SelectUnit(unit) ==
  /\ chart # NoChart
  /\ unit # selectedUnit
  /\ selectedUnit' = unit
  /\ chart' = NoChart
  /\ divisors' = {}
  /\ UNCHANGED <<sensorLastData, selectedAxis, vibrationStats, tempStatus,
                 overall, timeData, fft, error, call,
                 sensorsTable, sensorListView, detail>>

NextChart ==
  \/ Render
  \/ \E axis \in Axes : SelectAxis(axis)
  \/ \E unit \in Units : SelectUnit(unit)

SpecChart == InitChart /\ [][NextChart]_vars

(***************************************************************************)
(* The statistics of the first detail page: the vibration statistics       *)
(* effect on the arrays and the overall statistics of the selected axis.   *)
(* Its payload fields x, y, z are the fields h, v, a of sensorLastData.    *)
(***************************************************************************)
RECURSIVE MaxAbsOf(_)
MaxAbsOf(s) == IF Len(s) = 1 THEN Abs(Head(s)) ELSE Max(Abs(Head(s)), MaxAbsOf(Tail(s)))

RECURSIVE MinAbsOf(_)
MinAbsOf(s) == IF Len(s) = 1 THEN Abs(Head(s)) ELSE Min(Abs(Head(s)), MinAbsOf(Tail(s)))

RECURSIVE SumAbs(_)
SumAbs(s) == IF s = <<>> THEN 0 ELSE Abs(Head(s)) + SumAbs(Tail(s))

\* x.map((adc) => adcToAccelerationG(adc)), as numerators over 17367.
ToG(arr) == [i \in 1..Len(arr) |-> AdcToAccelerationG(arr[i], DEFAULT_RANGE).num]

\* The thresholds 0.5 and 0.8 on an rms in G, squared and in the unit of the
\* squared numerators: 0.25 * 17367^2 = 75403172.25 and 0.64 * 17367^2 =
\* 193032120.96, as whole part and hundredths.
WARN_SQ_WHOLE == 75403172

WARN_SQ_HUNDREDTHS == 25

CRIT_SQ_WHOLE == 193032120

CRIT_SQ_HUNDREDTHS == 96

\* num / den > whole + hundredths / 100, for den > 0, without a large product.
RatGt(num, den, whole, hundredths) ==
  \/ num \div den > whole
  \/ num \div den = whole /\ 100 * (num % den) > hundredths * den

\* The array branch of the effect.  Each rms is Math.sqrt(sum / length) with
\* no test of that length: 0 / 0 is NaN, and NaN makes rmsTotal NaN and every
\* comparison with it false.  Math.max() of no arguments is -Infinity.
ArrayStats(x, y, z) ==
  LET xG == ToG(x)
      yG == ToG(y)
      zG == ToG(z)
      lx == Len(xG)
      ly == Len(yG)
      lz == Len(zG)
      anyNaN == lx = 0 \/ ly = 0 \/ lz = 0
      \* rmsTotal^2 = (rmsX^2 + rmsY^2 + rmsZ^2) / 3
      num == SumSq(xG) * ly * lz + SumSq(yG) * lx * lz + SumSq(zG) * lx * ly
      den == 3 * lx * ly * lz
      peaks == {MaxAbsOf(g) : g \in {w \in {xG, yG, zG} : Len(w) > 0}}
      peakTotal == CHOOSE m \in peaks : \A o \in peaks : m >= o
  IN [rms |-> IF anyNaN THEN NaN ELSE SqrtVal(1, 1, num, den),
      peak |-> IF peaks = {} THEN MinusInfinity ELSE SqrtVal(peakTotal, 17367, 1, 1),
      status |-> IF anyNaN THEN "Normal"
                 ELSE IF RatGt(num, den, CRIT_SQ_WHOLE, CRIT_SQ_HUNDREDTHS) THEN "Critical"
                 ELSE IF RatGt(num, den, WARN_SQ_WHOLE, WARN_SQ_HUNDREDTHS) THEN "Warning"
                 ELSE "Normal",
      source |-> "array",
      divided |-> {lx, ly, lz}]

\* Array.isArray(x) && Array.isArray(y) && Array.isArray(z) && x.length > 0
EffectTakesArrays(d) ==
  d.h.isArray /\ d.v.isArray /\ d.a.isArray /\ Len(d.h.arr) > 0

\* The overall statistics of the selected axis, rendered when
\* vibrationData.hasData: avg = sum / absValues.length, rms over the same
\* length divided by scaleFactor = 1000, peak = max / 1000 and
\* peak-to-peak = (max - min) / 1000 of the absolute raw values.
SCALE_FACTOR == 1000

OverallStatistics(axisData) ==
  LET n == Len(axisData)
  IN [status |-> "ok",
      avg |-> IF n = 0 THEN NaN ELSE SqrtVal(SumAbs(axisData), n, 1, 1),
      rmsValue |-> IF n = 0 THEN NaN ELSE SqrtVal(1, SCALE_FACTOR, SumSq(axisData), n),
      peakValue |-> IF n = 0 THEN MinusInfinity
                    ELSE SqrtVal(MaxAbsOf(axisData), SCALE_FACTOR, 1, 1),
      peakToPeakValue |-> IF n = 0 THEN MinusInfinity
                          ELSE SqrtVal(MaxAbsOf(axisData) - MinAbsOf(axisData), SCALE_FACTOR, 1, 1),
      divided |-> {n}]

AdcValues == {ADC_OFFSET, ADC_HIGH}

InitStats ==
  /\ \E x \in SeqsOf(AdcValues, 0, MaxAxisLen), y \in SeqsOf(AdcValues, 0, MaxAxisLen),
        z \in SeqsOf(AdcValues, 0, MaxAxisLen) :
       sensorLastData = [h |-> Arr(x), v |-> Arr(y), a |-> Arr(z),
                         temperature |-> 0, alarm_ths |-> 0,
                         g_scale |-> G_SCALE_DEFAULT, datetime |-> LATEST]
  /\ Idle
  /\ call = NoCall

\* useEffect on sensorLastData, the branch taken for arrays with x not empty.
VibrationStatsEffectArray ==
  /\ vibrationStats.source = "useState"
  /\ EffectTakesArrays(sensorLastData)
  /\ LET stats == ArrayStats(sensorLastData.h.arr, sensorLastData.v.arr, sensorLastData.a.arr)
     IN /\ vibrationStats' = [rms |-> stats.rms, peak |-> stats.peak,
                              status |-> stats.status, source |-> stats.source]
        /\ divisors' = stats.divided
  /\ UNCHANGED <<sensorLastData, selectedAxis, selectedUnit, tempStatus, overall,
                 chart, timeData, fft, error, call,
                 sensorsTable, sensorListView, detail>>

\* The render of the overall statistics of the selected axis.
RenderOverallStatistics ==
  /\ overall = NoOverall
  /\ IF HasVibrationData(sensorLastData)
     THEN /\ overall' = OverallStatistics(RawAxisData(sensorLastData, selectedAxis))
          /\ divisors' = overall'.divided
     ELSE /\ overall' = [NoOverall EXCEPT !.status = "noData"]
          /\ divisors' = {}
  /\ UNCHANGED <<sensorLastData, selectedAxis, selectedUnit, vibrationStats, tempStatus,
                 chart, timeData, fft, error, call,
                 sensorsTable, sensorListView, detail>>

\* onValueChange of the axis selector of the first detail page.
SelectAxisOverall(axis) ==
  /\ overall # NoOverall
  /\ axis # selectedAxis
  /\ selectedAxis' = axis
  /\ overall' = NoOverall
  /\ divisors' = {}
  /\ UNCHANGED <<sensorLastData, selectedUnit, vibrationStats, tempStatus,
                 chart, timeData, fft, error, call,
                 sensorsTable, sensorListView, detail>>

NextStats ==
  \/ VibrationStatsEffectArray
  \/ VibrationStatsEffectScalar /\ vibrationStats.source = "useState"
  \/ RenderOverallStatistics
  \/ \E axis \in Axes : SelectAxisOverall(axis)

SpecStats == InitStats /\ [][NextStats]_vars

(***************************************************************************)
(* C1: every severity classification of a value v against thresholds       *)
(* warn <= crit returns Critical iff v > crit, Warning iff                 *)
(* warn < v <= crit, Normal iff v <= warn; a value equal to a threshold    *)
(* takes the lower level.                                                  *)
(***************************************************************************)
IsLevelOf(status, v, warn, crit) ==
  /\ status \in {"Critical", "Warning", "Normal"}
  /\ (status = "Critical") <=> (v > crit)
  /\ (status = "Warning") <=> (warn < v /\ v <= crit)
  /\ (status = "Normal") <=> (v <= warn)

EffectRan == vibrationStats.source # "useState"

C1_SeverityLevels ==
  /\ EffectRan =>
       IsLevelOf(vibrationStats.status,
                 RmsTotalSq300(sensorLastData.h.num, sensorLastData.v.num, sensorLastData.a.num),
                 VibWarnSq300, VibCritSq300)
  /\ (tempStatus # "none" /\ 7 * AlarmThs(sensorLastData) <= 10 * AlarmThs(sensorLastData)) =>
       IsLevelOf(tempStatus, 10 * sensorLastData.temperature,
                 7 * AlarmThs(sensorLastData), 10 * AlarmThs(sensorLastData))

\* rmsTotal = 0.5 exactly is Normal and rmsTotal = 0.6 is Warning; a temperature
\* equal to the threshold 10 is Warning and equal to 0.7 * 10 is Normal.
C1_Witness ==
  \/ /\ EffectRan
     /\ sensorLastData.h.num = 5 /\ sensorLastData.v.num = 5 /\ sensorLastData.a.num = 5
     /\ vibrationStats.status = "Normal"
     /\ tempStatus = "Warning"
     /\ sensorLastData.alarm_ths = 10 /\ sensorLastData.temperature = 10
  \/ /\ EffectRan
     /\ sensorLastData.h.num = 6 /\ sensorLastData.v.num = 6 /\ sensorLastData.a.num = 6
     /\ vibrationStats.status = "Warning"
     /\ tempStatus = "Normal"
     /\ sensorLastData.alarm_ths = 10 /\ sensorLastData.temperature = 7

(***************************************************************************)
(* C5: for every input series of length n, calculateFFT returns magnitude  *)
(* and frequency arrays of exactly n entries each (the unpadded length).   *)
(***************************************************************************)
C5_RetainsOriginalLength ==
  fft # NoFFT =>
    /\ fft.status = "ok"
    /\ Len(fft.magnitude) = Len(timeData)
    /\ Len(fft.frequency) = Len(timeData)

(***************************************************************************)
(* C6: for every non-empty series the frequencies returned by calculateFFT *)
(* start at 0, are strictly increasing, and none exceeds the Nyquist       *)
(* frequency SAMPLING_RATE / 2.  A frequency f is kept as f * n.           *)
(***************************************************************************)
C6_FrequenciesUpToNyquist ==
  (fft.status = "ok" /\ Len(timeData) >= 1) =>
    /\ fft.frequency[1] = 0
    /\ \A i \in 1..(Len(fft.frequency) - 1) : fft.frequency[i] < fft.frequency[i + 1]
    /\ \A i \in 1..Len(fft.frequency) : 2 * fft.frequency[i] <= SAMPLING_RATE * Len(timeData)

(***************************************************************************)
(* C7: calculateFFT does not fail on degenerate input: for a series of     *)
(* length 0 it returns an empty spectrum without attempting a transform,   *)
(* and for a series of length 1 it returns exactly one bin, at frequency 0.*)
(***************************************************************************)
C7_DegenerateInput ==
  (fft # NoFFT /\ Len(timeData) <= 1) =>
    /\ fft.status = "ok"
    /\ Len(fft.magnitude) = Len(timeData)
    /\ Len(fft.frequency) = Len(timeData)
    /\ Len(timeData) = 0 => ~fft.constructed
    /\ Len(timeData) = 1 => fft.frequency[1] = 0

Listed(j) == \E r \in 1..Len(chart.topPeaks) : chart.topPeaks[r].idx = j

C3_TiesKeepBinOrder ==
  chart.status = "ok" =>
    /\ \A r1, r2 \in 1..Len(chart.topPeaks) :
         (r1 < r2 /\ chart.topPeaks[r1].peak = chart.topPeaks[r2].peak)
           => chart.topPeaks[r1].idx < chart.topPeaks[r2].idx
    /\ \A r \in 1..Len(chart.topPeaks), j \in 1..Len(chart.freqMagnitude) :
         (~Listed(j) /\ chart.freqMagnitude[j] = chart.topPeaks[r].peak)
           => chart.topPeaks[r].idx < j

\* Six equal non-DC magnitudes: the first five bins are listed in bin order and
\* the sixth is the one left out.
C3_Witness ==
  /\ chart.status = "ok"
  /\ Len(chart.freqMagnitude) = 6
  /\ \A j \in 1..6 : chart.freqMagnitude[j] = chart.freqMagnitude[1]
  /\ chart.freqMagnitude[1] > 0
  /\ Len(chart.topPeaks) = 5
  /\ \A r \in 1..5 : chart.topPeaks[r].idx = r
  /\ ~Listed(6)

(***************************************************************************)
(* C4: the top-peak list never contains the DC bin (spectrum index 0,      *)
(* frequency 0), each entry reports the frequency of the same bin whose    *)
(* magnitude it reports, and every non-DC bin left out of the list has     *)
(* magnitude <= the smallest magnitude in the list.  Entry idx is bin      *)
(* idx + 1 of the 1-based spectrum, whose DC bin is bin 1.                 *)
(***************************************************************************)
C4_TopPeaksAreLargestNonDC ==
  chart.status = "ok" =>
    /\ \A r \in 1..Len(chart.topPeaks) :
         LET e == chart.topPeaks[r]
         IN /\ e.idx \in 1..(Len(chart.magnitude) - 1)
            /\ e.peak = chart.magnitude[e.idx + 1]
            /\ e.frequency = chart.frequency[e.idx + 1]
            /\ e.frequency # 0
    /\ \A r1, r2 \in 1..Len(chart.topPeaks) :
         r1 # r2 => chart.topPeaks[r1].idx # chart.topPeaks[r2].idx
    /\ \A j \in 1..Len(chart.freqMagnitude), r \in 1..Len(chart.topPeaks) :
         ~Listed(j) => chart.freqMagnitude[j] <= chart.topPeaks[r].peak

\* The DC bin holds the largest magnitude of 7 bins and is not listed; the one
\* bin left out is smaller than every listed one.
C4_Witness ==
  /\ chart.status = "ok"
  /\ Len(chart.magnitude) = 7
  /\ \A i \in 2..7 : chart.magnitude[1] > chart.magnitude[i]
  /\ ~Listed(3)
  /\ \A r \in 1..Len(chart.topPeaks) : chart.topPeaks[r].peak > chart.freqMagnitude[3]
  /\ Len(chart.topPeaks) = 5

(***************************************************************************)
(* C8: for an empty axis series prepareChartData returns without raising,  *)
(* with rms, peak and peak-to-peak all zero, an empty top-peak list and    *)
(* empty time and frequency data, for every unit selection.                *)
(***************************************************************************)
EmptySeriesCharted ==
  /\ chart # NoChart
  /\ HasVibrationData(sensorLastData)
  /\ Len(RawAxisData(sensorLastData, selectedAxis)) = 0

C8_EmptySeriesGivesZeros ==
  EmptySeriesCharted =>
    /\ chart.status = "empty"
    /\ IsZero(chart.rmsValue) /\ IsZero(chart.peakValue) /\ IsZero(chart.peakToPeakValue)
    /\ chart.topPeaks = <<>>
    /\ chart.timeLabels = <<>> /\ chart.processedData = <<>>
    /\ chart.freqLabels = <<>> /\ chart.freqMagnitude = <<>>

\* The V axis is empty while H is not, and the velocity unit is selected.
C8_Witness ==
  /\ EmptySeriesCharted
  /\ selectedAxis = "V-axis"
  /\ selectedUnit = "Velocity (mm/s)"
  /\ Len(sensorLastData.h.arr) > 0
  /\ chart.status = "empty"

(***************************************************************************)
(* C9: when the three axis arrays of a sample batch have unequal lengths,  *)
(* the engine reports an InvalidInput error to the caller and produces no  *)
(* statistics for that batch; it neither truncates nor computes per-axis   *)
(* results from the mismatched arrays.                                     *)
(***************************************************************************)
UnequalLengths ==
  /\ sensorLastData.h.isArray /\ sensorLastData.v.isArray /\ sensorLastData.a.isArray
  /\ \/ Len(sensorLastData.h.arr) # Len(sensorLastData.v.arr)
     \/ Len(sensorLastData.v.arr) # Len(sensorLastData.a.arr)

C9_UnequalLengthsRejected ==
  UnequalLengths =>
    /\ vibrationStats = InitialStats
    /\ overall.status # "ok"
    /\ overall # NoOverall => error = "InvalidInput"

(***************************************************************************)
(* C10: each division by the length of an array is reached only after a    *)
(* branch has established that this same array's length is non-zero: no    *)
(* statistic is computed by dividing by a length of 0, for any combination *)
(* of axis array lengths and any selected axis.                            *)
(***************************************************************************)
C10_NoDivisionByZeroLength == 0 \notin divisors

(***************************************************************************)
(* Calls of accelerationToVelocity(accelerations, timeInterval).           *)
(***************************************************************************)
AccelValues == {-1, 0, 2}

InitVelocity ==
  /\ sensorLastData = NoData
  /\ Idle
  /\ \E acc \in SeqsOf(AccelValues, 0, MaxVelLen), dt \in 1..MaxDt :
       call = [fn |-> "accelerationToVelocity", accelerations |-> acc,
               timeInterval |-> dt, result |-> <<>>, done |-> FALSE]

PageUnchanged ==
  UNCHANGED <<sensorLastData, selectedAxis, selectedUnit, vibrationStats, tempStatus,
              overall, chart, timeData, fft, divisors, error,
                 sensorsTable, sensorListView, detail>>

\* One call: the array passed in is read only, the result is a new array.
AccelerationToVelocityCall ==
  /\ call.fn = "accelerationToVelocity"
  /\ ~call.done
  /\ call' = [call EXCEPT !.result = AccelerationToVelocity(call.accelerations, call.timeInterval),
                          !.done = TRUE]
  /\ PageUnchanged

NextVelocity == AccelerationToVelocityCall

SpecVelocity == InitVelocity /\ [][NextVelocity]_vars

(***************************************************************************)
(* C11: for every acceleration series a of length n >= 2 and step dt,      *)
(* accelerationToVelocity returns v with v[0] = 0 and                      *)
(* v[i+1] = v[i] + 0.5 * dt * (a[i] + a[i+1]) for every 0 <= i < n - 1.    *)
(* Velocities are kept in units of 1 / 200, dt in hundredths.              *)
(***************************************************************************)
C11_CumulativeTrapezoid ==
  (call.fn = "accelerationToVelocity" /\ call.done /\ Len(call.accelerations) >= 2) =>
    /\ call.result[1] = 0
    /\ \A i \in 1..(Len(call.accelerations) - 1) :
         call.result[i + 1] =
           call.result[i] + call.timeInterval * (call.accelerations[i] + call.accelerations[i + 1])

\* a = [2, 2, -1, 2] with dt = 0.03: v = [0, 0.06, 0.075, 0.09].
C11_Witness ==
  /\ call.fn = "accelerationToVelocity" /\ call.done
  /\ call.accelerations = <<2, 2, -1, 2>>
  /\ call.timeInterval = 3
  /\ call.result = <<0, 12, 15, 18>>

(***************************************************************************)
(* C12, as stated: for every input series, accelerationToVelocity returns  *)
(* a series whose length equals the length of its input.                   *)
(***************************************************************************)
C12_SameLengthEveryInput ==
  (call.fn = "accelerationToVelocity" /\ call.done) =>
    Len(call.result) = Len(call.accelerations)

(***************************************************************************)
(* C12, amended: for every non-empty input series the result has the       *)
(* length of the input; for the empty series it has length 1.              *)
(***************************************************************************)
C12_SameLengthNonEmpty ==
  (call.fn = "accelerationToVelocity" /\ call.done) =>
    Len(call.result) = IF Len(call.accelerations) = 0 THEN 1 ELSE Len(call.accelerations)

C12_Witness ==
  /\ call.fn = "accelerationToVelocity" /\ call.done
  /\ Len(call.accelerations) = 3
  /\ Len(call.result) = 3

(***************************************************************************)
(* C13: for every input series of length 0 or 1 and every dt,              *)
(* accelerationToVelocity returns exactly the single-element series [0].   *)
(***************************************************************************)
C13_ShortInputGivesZero ==
  (call.fn = "accelerationToVelocity" /\ call.done /\ Len(call.accelerations) <= 1) =>
    call.result = <<0>>

C13_Witness ==
  /\ call.fn = "accelerationToVelocity" /\ call.done
  /\ call.accelerations = <<>>
  /\ call.timeInterval = 2
  /\ call.result = <<0>>

(***************************************************************************)
(* adcToAccelerationG as a free-standing call: the ADC count is drawn      *)
(* around the offset, the range from the four supported values and one     *)
(* unsupported one, and the range argument may be omitted.                 *)
(***************************************************************************)
AdcInputs == (ADC_OFFSET - AdcSpan)..(ADC_OFFSET + AdcSpan)

RangeValues == {2, 3, 4, 8, 16}

\* function adcToAccelerationG(adcValue, range = 2): the default parameter.
RangeParameter(c) == IF c.hasRange THEN c.range ELSE DEFAULT_RANGE

InitConvert ==
  /\ sensorLastData = NoData
  /\ Idle
  /\ \E adc \in AdcInputs, range \in RangeValues, given \in BOOLEAN :
       call = [fn |-> "adcToAccelerationG", adcValue |-> adc, range |-> range,
               hasRange |-> given, result |-> [num |-> 0, den |-> 0], done |-> FALSE]

AdcToAccelerationGCall ==
  /\ call.fn = "adcToAccelerationG"
  /\ ~call.done
  /\ call' = [call EXCEPT !.result = AdcToAccelerationG(call.adcValue, RangeParameter(call)),
                          !.done = TRUE]
  /\ PageUnchanged

NextConvert == AdcToAccelerationGCall

SpecConvert == InitConvert /\ [][NextConvert]_vars

(***************************************************************************)
(* C14: adcToAccelerationG(adc, range) = (adc - 512) / s with s = 17367,   *)
(* 8684, 4342, 2171 for range 2, 4, 8, 16 and s = 17367 for any other or   *)
(* omitted range; the result is 0 at adc = 512 and strictly increasing in  *)
(* adc for a fixed range.                                                  *)
(***************************************************************************)
C14_AdcToG ==
  (call.fn = "adcToAccelerationG" /\ call.done) =>
    LET r    == IF call.hasRange THEN call.range ELSE 2
        s    == IF r = 4 THEN 8684 ELSE IF r = 8 THEN 4342 ELSE IF r = 16 THEN 2171 ELSE 17367
        next == AdcToAccelerationG(call.adcValue + 1, RangeParameter(call))
    IN /\ call.result.num = call.adcValue - 512
       /\ call.result.den = s
       /\ call.adcValue = 512 => call.result.num = 0
       /\ call.result.den > 0 /\ next.den > 0
       /\ call.result.num * next.den < next.num * call.result.den

\* An unsupported range falls back to the 2G sensitivity: 515 at range 3.
C14_Witness ==
  /\ call.fn = "adcToAccelerationG" /\ call.done
  /\ call.hasRange /\ call.range = 3 /\ call.adcValue = 515
  /\ call.result = [num |-> 3, den |-> 17367]

(***************************************************************************)
(* The chart pipeline on payloads whose g_scale is any of the four ranges  *)
(* the configuration form offers.                                          *)
(***************************************************************************)
GScales == {2, 4, 8, 16}

CalibrationSamples == {ADC_OFFSET, ADC_HIGH}

InitCalibration ==
  /\ \E h \in SeqsOf(CalibrationSamples, 1, MaxAxisLen), g \in GScales :
       sensorLastData = [h |-> Arr(h), v |-> Arr(h), a |-> Arr(h),
                         temperature |-> 0, alarm_ths |-> 0, g_scale |-> g,
                         datetime |-> LATEST]
  /\ Idle
  /\ call = NoCall

SpecCalibration == InitCalibration /\ [][NextChart]_vars

(***************************************************************************)
(* C15: the pipeline converts each ADC sample to G with the batch's        *)
(* configured range g_scale r, processedData[i] = (adc[i] - 512) / s(r),   *)
(* so the same samples under different ranges give different G series.     *)
(***************************************************************************)
C15_UsesConfiguredRange ==
  (chart.status = "ok" /\ selectedUnit = "Acceleration (G)") =>
    \A i \in 1..Len(chart.processedData) :
      chart.processedData[i] * Sensitivity(sensorLastData.g_scale) =
        (RawAxisData(sensorLastData, selectedAxis)[i] - ADC_OFFSET) * chart.sensitivity

IsNonNegativeNumber(x) == ~x.nan /\ x.cd > 0 /\ x.cn >= 0 /\ x.den > 0 /\ x.num >= 0

(***************************************************************************)
(* C17: every RMS, peak and peak-to-peak value the statistics sites report *)
(* is a number (not NaN, not infinite) that is >= 0, for every batch the   *)
(* site accepts.                                                           *)
(***************************************************************************)
C17_StatisticsAreNonNegativeNumbers ==
  /\ vibrationStats.source = "array" =>
       IsNonNegativeNumber(vibrationStats.rms) /\ IsNonNegativeNumber(vibrationStats.peak)
  /\ overall.status = "ok" =>
       /\ IsNonNegativeNumber(overall.rmsValue)
       /\ IsNonNegativeNumber(overall.peakValue)
       /\ IsNonNegativeNumber(overall.peakToPeakValue)
  /\ chart.status \in {"ok", "empty"} =>
       /\ IsNonNegativeNumber(chart.rmsValue)
       /\ IsNonNegativeNumber(chart.peakValue)
       /\ IsNonNegativeNumber(chart.peakToPeakValue)

(***************************************************************************)
(* C18: for every series of length n >= 1 the transform size is the        *)
(* smallest power of two that is >= n, so every read of output[2i] and     *)
(* output[2i + 1] for i < n falls inside the buffer of 2 * size entries.   *)
(***************************************************************************)
C18_SizeIsNextPowerOfTwo ==
  (fft.status # "none" /\ Len(timeData) >= 1) =>
    /\ IsPow2(fft.nextPow2)
    /\ fft.nextPow2 >= Len(timeData)
    /\ \A p \in 1..(fft.nextPow2 - 1) : IsPow2(p) => p < Len(timeData)
    /\ fft.status = "ok" =>
         /\ fft.outputLength = 2 * fft.nextPow2
         /\ \A r \in fft.reads : 0 <= r /\ r < fft.outputLength

\* Five samples: size 8, a buffer of 16, the last read at index 9.
C18_Witness ==
  /\ fft.status = "ok"
  /\ Len(timeData) = 5
  /\ fft.nextPow2 = 8
  /\ fft.outputLength = 16
  /\ 9 \in fft.reads

(***************************************************************************)
(* calculateFFT with the transform of fft.js made explicit.  dft holds the *)
(* moduli of the discrete Fourier transform of the zero-padded series, a   *)
(* real series, so bin size - k has the modulus of bin k.  realTransform   *)
(* "fills just the left half of the out" unless completeSpectrum is        *)
(* called, which calculateFFT does not do: bins 0..size/2 of the buffer    *)
(* hold the transform, the bins above hold what the earlier passes left    *)
(* there.  Transforms of size 2 and 4 are a single pass that writes every  *)
(* bin.  Bin k is index k + 1.                                             *)
(***************************************************************************)
FilledBins(size) == IF size <= 4 THEN 1..size ELSE 1..(size \div 2 + 1)

Spectra(size) ==
  {[k \in 1..size |-> IF k <= size \div 2 + 1 THEN half[k] ELSE half[size + 2 - k]] :
     half \in [1..(size \div 2 + 1) -> 0..MaxAbs]}

RealTransformOutputs(size, dft) ==
  {[k \in 1..size |-> IF k \in FilledBins(size) THEN dft[k] ELSE left[k]] :
     left \in [(1..size) \ FilledBins(size) -> 0..MaxAbs]}

\* One series per length: a unit impulse.
Impulse(n) == [i \in 1..n |-> IF i = 1 THEN 1 ELSE 0]

InitFFTBins ==
  /\ \E n \in 0..MaxBinsLen : timeData = Impulse(n)
  /\ sensorLastData = NoData
  /\ selectedAxis = "H-axis"
  /\ selectedUnit = "Acceleration (G)"
  /\ vibrationStats = InitialStats
  /\ tempStatus = "none"
  /\ overall = NoOverall
  /\ chart = NoChart
  /\ fft = NoFFT
  /\ divisors = {}
  /\ error = "null"
  /\ sensorsTable = Unmounted
  /\ sensorListView = Unmounted
  /\ detail = Unmounted
  /\ call = NoCall

\* A call calculateFFT(timeData); call records what realTransform was given
\* to compute and what it left in the buffer.
CalculateFFTBinsCall ==
  /\ fft = NoFFT
  /\ \E dft \in Spectra(NextPow2(Len(timeData))) :
       \E output \in RealTransformOutputs(NextPow2(Len(timeData)), dft) :
         /\ fft' = CalculateFFT(timeData, output)
         /\ call' = [fn |-> "realTransform", dft |-> dft, output |-> output]
  /\ divisors' = IF fft'.status = "ok" THEN {Len(timeData)} ELSE {}
  /\ UNCHANGED <<sensorLastData, selectedAxis, selectedUnit, vibrationStats, tempStatus,
                 overall, chart, timeData, error,
                 sensorsTable, sensorListView, detail>>

NextFFTBins == CalculateFFTBinsCall

SpecFFTBins == InitFFTBins /\ [][NextFFTBins]_vars

(***************************************************************************)
(* C19: for every retained bin i < n, also those above paddedLength / 2,   *)
(* magnitude[i] = (2.56 / n) * |bin i of the DFT of the zero-padded        *)
(* series| and frequency[i] = i * rate / n; no retained bin is read from a *)
(* part of the buffer the transform did not fill.                          *)
(***************************************************************************)
C19_RetainedBinsAreDFTBins ==
  fft.status = "ok" =>
    \A i \in 1..Len(fft.magnitude) :
      /\ fft.magnitude[i] = 256 * call.dft[i]
      /\ fft.frequency[i] = (i - 1) * SAMPLING_RATE
      /\ i \in FilledBins(fft.nextPow2)

(***************************************************************************)
(* C21: every severity classification takes both of its thresholds from    *)
(* its caller's configuration: the temperature level is the level of the   *)
(* temperature against the configured alarm threshold alarm_ths and        *)
(* 0.7 * alarm_ths, whatever alarm_ths is, and no threshold built into the *)
(* code takes part in the comparison.                                      *)
(***************************************************************************)
C21_ThresholdsFromConfiguration ==
  tempStatus # "none" =>
    tempStatus = Classify(10 * sensorLastData.temperature,
                          7 * sensorLastData.alarm_ths, 10 * sensorLastData.alarm_ths)

(***************************************************************************)
(* The list components.  While one of them is modelled the detail page is  *)
(* not rendered and its chart state is at rest.                            *)
(***************************************************************************)
ChartAtRest ==
  /\ sensorLastData = NoData
  /\ selectedAxis = "H-axis"
  /\ selectedUnit = "Acceleration (G)"
  /\ vibrationStats = InitialStats
  /\ tempStatus = "none"
  /\ overall = NoOverall
  /\ chart = NoChart
  /\ timeData = <<>>
  /\ fft = NoFFT
  /\ divisors = {}
  /\ error = "null"
  /\ call = NoCall

ChartUnchanged ==
  UNCHANGED <<sensorLastData, selectedAxis, selectedUnit, vibrationStats, tempStatus,
              overall, chart, timeData, fft, divisors, error, call>>

(***************************************************************************)
(* SensorsTable.  sensors is named by the request it is the response to    *)
(* (sorted by the sortField and sortDirection the request's closure        *)
(* holds); pending holds the getSensors promises not settled yet; last is  *)
(* the handler that ran last, its argument and the state it started from.  *)
(***************************************************************************)
SortFields == {"serialNumber", "machineName", "status", "lastUpdated"}

\* useState<Sensor[]>([])
NoSensors == [page |-> 0, sortField |-> "none", sortDirection |-> "none"]

\* What the server reports as total / sensorsPerPage, rounded up.
ServerTotalPages == MaxPage

\* The useEffect on [page, sortField, sortDirection]: one getSensors({page, limit}).
FetchEffect(t) ==
  [t EXCEPT !.issued = @ + 1,
            !.pending = @ \cup {[id |-> t.issued + 1, page |-> t.page,
                                 sortField |-> t.sortField,
                                 sortDirection |-> t.sortDirection]}]

\* handleSort(field), lines 93-100.
HandleSortAlwaysAsc(t, field) ==
  [t EXCEPT !.sortField = field, !.sortDirection = "asc"]

HandleSortState(t, field) ==
  IF field = t.sortField
  THEN [t EXCEPT !.sortDirection = IF t.sortDirection = "asc" THEN "desc" ELSE "asc"]
  ELSE [t EXCEPT !.sortField = field, !.sortDirection = "asc"]

\* The state fields a handler call is judged on.
Selection(t) == [page |-> t.page, sortField |-> t.sortField, sortDirection |-> t.sortDirection]

InitSensorsTable ==
  /\ ChartAtRest
  /\ sensorListView = Unmounted
  /\ detail = Unmounted
  /\ sensorsTable = FetchEffect([mounted |-> TRUE, sensors |-> NoSensors, page |-> 1,
                                 totalPages |-> 1, sortField |-> "serialNumber",
                                 sortDirection |-> "asc", issued |-> 0, pending |-> {},
                                 rejected |-> {},
                                 last |-> [fn |-> "mount", arg |-> "none",
                                           before |-> NoSensors]])

\* handlePageChange(_, value) of the Pagination, then the effect.
TableHandlePageChange(value) ==
  /\ sensorsTable.issued < MaxRequests
  /\ value # sensorsTable.page
  /\ sensorsTable' = FetchEffect([sensorsTable EXCEPT !.page = value,
                                    !.last = [fn |-> "handlePageChange", arg |-> "page",
                                              before |-> Selection(sensorsTable)]])
  /\ UNCHANGED <<sensorListView, detail>>
  /\ ChartUnchanged

\* handleSort(field) of a column header, then the effect.
HandleSort(field) ==
  /\ sensorsTable.issued < MaxRequests
  /\ sensorsTable' = FetchEffect([HandleSortState(sensorsTable, field) EXCEPT
                                    !.last = [fn |-> "handleSort", arg |-> field,
                                              before |-> Selection(sensorsTable)]])
  /\ UNCHANGED <<sensorListView, detail>>
  /\ ChartUnchanged

\* await getSensors(...) returns: sort, setSensors, setTotalSensors, setTotalPages.
TableGetSensorsResolves(r) ==
  /\ sensorsTable' = [sensorsTable EXCEPT
                        !.sensors = [page |-> r.page, sortField |-> r.sortField,
                                     sortDirection |-> r.sortDirection],
                        !.totalPages = ServerTotalPages,
                        !.pending = @ \ {r}]
  /\ UNCHANGED <<sensorListView, detail>>
  /\ ChartUnchanged

\* await getSensors(...) rejects: fetchSensors has no catch, nothing is set.
TableGetSensorsRejects(r) ==
  /\ sensorsTable' = [sensorsTable EXCEPT !.pending = @ \ {r}, !.rejected = @ \cup {r.id}]
  /\ UNCHANGED <<sensorListView, detail>>
  /\ ChartUnchanged

NextSensorsTable ==
  \/ \E value \in 1..MaxPage : value <= sensorsTable.totalPages /\ TableHandlePageChange(value)
  \/ \E field \in SortFields : HandleSort(field)
  \/ \E r \in sensorsTable.pending : TableGetSensorsResolves(r)
  \/ \E r \in sensorsTable.pending : TableGetSensorsRejects(r)

SpecSensorsTable == InitSensorsTable /\ [][NextSensorsTable]_vars

(***************************************************************************)
(* C29: handleSort(f) on the current sortField flips sortDirection and     *)
(* leaves sortField; on another field it sets sortField to f and           *)
(* sortDirection to asc; page is unchanged in both cases; two consecutive  *)
(* calls on the current field restore the original direction.              *)
(***************************************************************************)
C29_HandleSort ==
  /\ sensorsTable.last.fn = "handleSort" =>
       LET b == sensorsTable.last.before
           f == sensorsTable.last.arg
       IN /\ sensorsTable.page = b.page
          /\ sensorsTable.sortField = f
          /\ f = b.sortField =>
               /\ sensorsTable.sortDirection # b.sortDirection
               /\ sensorsTable.sortDirection \in {"asc", "desc"}
          /\ f # b.sortField => sensorsTable.sortDirection = "asc"
  /\ LET twice == HandleSortState(HandleSortState(sensorsTable, sensorsTable.sortField),
                                  sensorsTable.sortField)
     IN Selection(twice) = Selection(sensorsTable)

\* handleSort("status") on status/asc gave status/desc; page stayed 2.
C29_Witness ==
  /\ sensorsTable.last.fn = "handleSort"
  /\ sensorsTable.last.arg = "status"
  /\ sensorsTable.last.before = [page |-> 2, sortField |-> "status", sortDirection |-> "asc"]
  /\ Selection(sensorsTable) = [page |-> 2, sortField |-> "status", sortDirection |-> "desc"]

(***************************************************************************)
(* SensorListView.  sensors holds the page of the request it answers and   *)
(* the list received; tables is the three column slices the view renders;  *)
(* requested is the page of every getSensors call in order, changes the    *)
(* page of every page change in order.                                     *)
(***************************************************************************)
\* Math.ceil(a / b) for a >= 0, b > 0.
CeilDiv(a, b) == (a + b - 1) \div b

\* Array.prototype.slice(from, to) with 0 <= from, to <= length.
Slice(s, from, to) == IF to <= from THEN <<>> ELSE SubSeq(s, from + 1, to)

\* The slices of tables 1, 2 and 3 (lines 178, 237, 296).
ColumnsFloor(list) ==
  LET n == Len(list)
  IN <<Slice(list, 0, n \div 3),
       Slice(list, n \div 3, (n * 2) \div 3),
       Slice(list, (n * 2) \div 3, n)>>

Columns(list) ==
  LET n == Len(list)
  IN <<Slice(list, 0, CeilDiv(n, 3)),
       Slice(list, CeilDiv(n, 3), CeilDiv(n * 2, 3)),
       Slice(list, CeilDiv(n * 2, 3), n)>>

\* The lists getSensors can return: n distinct sensors.
SensorLists == {[i \in 1..n |-> i] : n \in 0..MaxSensors}

\* if (loading && !hasInitiallyLoaded.current) the skeleton is rendered
\* instead of the tables and the Pagination.
SkeletonShown(v) == v.loading /\ ~v.hasInitiallyLoaded

Rendered(v) == [v EXCEPT !.tables = IF SkeletonShown(v) THEN <<>> ELSE Columns(v.sensors.list)]

\* fetchSensors(false) up to its await.
FetchSensors(v) ==
  [v EXCEPT !.loading = IF ~v.hasInitiallyLoaded THEN TRUE ELSE @,
            !.issued = @ + 1,
            !.pending = @ \cup {[id |-> v.issued + 1, page |-> v.page]},
            !.requested = Append(@, v.page)]

\* The effect on [page]: if (hasInitiallyLoaded.current) fetchSensors(false).
PageChangeEffectNever(v) == v

PageChangeEffect(v) == IF v.hasInitiallyLoaded THEN FetchSensors(v) ELSE v

\* The effect on []: if (!hasInitiallyLoaded.current) fetchSensors(false).
InitialFetchEffect(v) == IF ~v.hasInitiallyLoaded THEN FetchSensors(v) ELSE v

\* Mount: both effects run once, the initial fetch first.
InitSensorListView ==
  /\ ChartAtRest
  /\ sensorsTable = Unmounted
  /\ detail = Unmounted
  /\ sensorListView =
       Rendered(PageChangeEffect(InitialFetchEffect(
         [mounted |-> TRUE, sensors |-> [page |-> 0, list |-> <<>>], page |-> 1,
          totalPages |-> 1, loading |-> TRUE, hasInitiallyLoaded |-> FALSE,
          issued |-> 0, pending |-> {}, rejected |-> {},
          requested |-> <<>>, changes |-> <<>>, tables |-> <<>>])))

\* handlePageChange(_, value) of the Pagination, then the effect on [page].
ListHandlePageChange(value) ==
  /\ ~SkeletonShown(sensorListView)
  /\ sensorListView.issued < MaxRequests
  /\ value # sensorListView.page
  /\ sensorListView' = Rendered(PageChangeEffect(
                         [sensorListView EXCEPT !.page = value, !.changes = Append(@, value)]))
  /\ UNCHANGED <<sensorsTable, detail>>
  /\ ChartUnchanged

\* await getSensors(...) returns: setSensors, setTotalPages,
\* hasInitiallyLoaded.current = true, finally setLoading(false).
ListGetSensorsResolves(r, list) ==
  /\ sensorListView' = Rendered([sensorListView EXCEPT
                                   !.sensors = [page |-> r.page, list |-> list],
                                   !.totalPages = ServerTotalPages,
                                   !.hasInitiallyLoaded = TRUE,
                                   !.loading = FALSE,
                                   !.pending = @ \ {r}])
  /\ UNCHANGED <<sensorsTable, detail>>
  /\ ChartUnchanged

\* await getSensors(...) rejects: console.error, finally setLoading(false).
ListGetSensorsRejects(r) ==
  /\ sensorListView' = Rendered([sensorListView EXCEPT
                                   !.loading = FALSE,
                                   !.pending = @ \ {r},
                                   !.rejected = @ \cup {r.id}])
  /\ UNCHANGED <<sensorsTable, detail>>
  /\ ChartUnchanged

NextSensorListView ==
  \/ \E value \in 1..MaxPage :
       value <= sensorListView.totalPages /\ ListHandlePageChange(value)
  \/ \E r \in sensorListView.pending, list \in SensorLists : ListGetSensorsResolves(r, list)
  \/ \E r \in sensorListView.pending : ListGetSensorsRejects(r)

SpecSensorListView == InitSensorListView /\ [][NextSensorListView]_vars

(***************************************************************************)
(* C30: for every list of n >= 0 sensors the three columns, the slices     *)
(* [0, ceil(n/3)), [ceil(n/3), ceil(2n/3)) and [ceil(2n/3), n), are        *)
(* disjoint, together contain every sensor exactly once in the original    *)
(* order, and have sizes that differ by at most 1.                         *)
(***************************************************************************)
C30_ColumnsPartitionTheList ==
  (sensorListView.mounted /\ sensorListView.tables # <<>>) =>
    LET t == sensorListView.tables
        l == sensorListView.sensors.list
    IN /\ Len(t) = 3
       /\ 3 * Len(t[1]) >= Len(l) /\ 3 * (Len(t[1]) - 1) < Len(l)
       /\ 3 * (Len(t[1]) + Len(t[2])) >= 2 * Len(l)
       /\ 3 * (Len(t[1]) + Len(t[2]) - 1) < 2 * Len(l)
       /\ t[1] \o t[2] \o t[3] = l
       /\ \A i, j \in 1..3 :
            /\ Len(t[i]) - Len(t[j]) <= 1
            /\ i # j => {t[i][k] : k \in 1..Len(t[i])} \cap {t[j][k] : k \in 1..Len(t[j])} = {}

\* Seven sensors: columns of 3, 2 and 2.
C30_Witness ==
  /\ sensorListView.mounted
  /\ sensorListView.sensors.list = <<1, 2, 3, 4, 5, 6, 7>>
  /\ sensorListView.tables = <<<<1, 2, 3>>, <<4, 5>>, <<6, 7>>>>

(***************************************************************************)
(* C22: in SensorsTable and SensorListView, once every issued getSensors   *)
(* request has settled (none of them rejected), the sensors displayed are  *)
(* the response to the request issued for the currently selected page and  *)
(* sort, whatever order the responses of overlapping requests arrive in.   *)
(***************************************************************************)
C22_DisplayedAnswersCurrentSelection ==
  /\ (sensorsTable.mounted /\ sensorsTable.pending = {} /\ sensorsTable.rejected = {}) =>
       sensorsTable.sensors = Selection(sensorsTable)
  /\ (sensorListView.mounted /\ sensorListView.pending = {} /\ sensorListView.rejected = {}) =>
       sensorListView.sensors.page = sensorListView.page

(***************************************************************************)
(* C27: SensorListView issues exactly one getSensors request when it       *)
(* mounts and, after the initial load has succeeded, exactly one request   *)
(* for each change of page, carrying the new page number: the pages        *)
(* requested are page 1 followed by the pages selected, in order.          *)
(***************************************************************************)
C27_OneRequestPerPageChange ==
  sensorListView.mounted =>
    /\ sensorListView.requested = <<1>> \o sensorListView.changes
    /\ sensorListView.issued = Len(sensorListView.requested)
    /\ sensorListView.changes # <<>> => sensorListView.hasInitiallyLoaded

\* Mount, then page 2, then back to page 1: three requests for 1, 2, 1.
C27_Witness ==
  /\ sensorListView.mounted
  /\ sensorListView.changes = <<2, 1>>
  /\ sensorListView.requested = <<1, 2, 1>>

(***************************************************************************)
(* SensorDetailPage: its requests, the datetime menu and the configuration *)
(* modal.  requests holds the promises not settled yet, each with the      *)
(* function that awaits it; a configuration PUT and the timer of a         *)
(* successful submission carry reopened, set when the modal is opened      *)
(* after the submission was made.  The chart state derived from            *)
(* sensorLastData is left at rest here.                                    *)
(***************************************************************************)
Datetimes == {"d1", "d2"}

\* The batch the last-data endpoint returns for a datetime (LATEST without one).
Batch(d) ==
  [h |-> Arr(Pattern(2)), v |-> Arr(Pattern(2)), a |-> Arr(Pattern(2)),
   temperature |-> 0, alarm_ths |-> 0, g_scale |-> G_SCALE_DEFAULT, datetime |-> d]

\* A JSON body without a data object.
MalformedBatch == [NoData EXCEPT !.datetime = "malformed"]

\* A request is named by the call that made it: the n-th datetime
\* selection, the n-th submission, or 0 for the requests of the mount.
Issue(dt, id, url, owner, arg) ==
  [dt EXCEPT !.requests = @ \cup {[id |-> id, url |-> url, owner |-> owner,
                                   arg |-> arg, reopened |-> FALSE]}]

Settle(dt, r) == [dt EXCEPT !.requests = @ \ {r}]

\* The page is past its loading spinner and its 'Sensor not found' screen.
PageRendered(dt) == ~dt.loading /\ dt.sensor # "null"

\* fetchSensor after its two awaits: setSensor(data), the sensor built from
\* lastData, or the default sensor (also set by the catch block when
\* lastData.data is missing).
SensorAfterFetchNull(found, lastData) ==
  IF found THEN "db" ELSE IF lastData = "batch" THEN "fromLastData" ELSE "null"

SensorAfterFetch(found, lastData) ==
  IF found THEN "db" ELSE IF lastData = "batch" THEN "fromLastData" ELSE "default"

\* error after a try / catch whose catch block calls setError(message):
\* nothing sets error on the success path.
ErrorAfterReset(current, failed, message) == IF failed THEN message ELSE "null"

ErrorAfter(current, failed, message) == IF failed THEN message ELSE current

DetailFrame ==
  UNCHANGED <<selectedAxis, selectedUnit, vibrationStats, tempStatus, overall, chart,
              timeData, fft, divisors, call, sensorsTable, sensorListView>>

\* Mount: the effect on [params.id] calls fetchSensor() and
\* fetchSensorDatetimes(params.id); the effect on [configModalOpen] starts
\* its 100 ms timer because the modal is closed.
InitDetail ==
  /\ ChartAtRest
  /\ sensorsTable = Unmounted
  /\ sensorListView = Unmounted
  /\ detail =
       Issue(Issue([mounted |-> TRUE, sensor |-> "null", loading |-> TRUE,
                    datetimes |-> {}, selectedDatetime |-> "", found |-> FALSE,
                    requests |-> {}, selects |-> 0, submits |-> 0,
                    configModalOpen |-> FALSE, configLoading |-> FALSE,
                    configError |-> "null", configSuccess |-> "null",
                    cleanupTimer |-> TRUE, closeTimers |-> {},
                    last |-> [fn |-> "mount", reopened |-> FALSE]],
                   0, "getSensorById", "fetchSensor", "none"),
             0, "datetimes", "fetchSensorDatetimes", "none")

Did(dt, fn) == [dt EXCEPT !.last = [fn |-> fn, reopened |-> FALSE]]

\* await getSensorById(params.id) settles; a rejection goes to the catch
\* block of fetchSensor, otherwise fetchSensorLastData is called.
GetSensorByIdSettles(r, outcome) ==
  /\ r.url = "getSensorById"
  /\ IF outcome = "throws"
     THEN /\ detail' = Did([Settle(detail, r) EXCEPT !.sensor = "default", !.loading = FALSE],
                           "fetchSensor")
          /\ error' = ErrorAfter(error, TRUE, "Failed to fetch sensor data")
     ELSE /\ detail' = Did(Issue([Settle(detail, r) EXCEPT !.found = (outcome = "found")],
                                 0, "last-data", "fetchSensor", "none"), "fetchSensor")
          /\ error' = error
  /\ sensorLastData' = sensorLastData
  /\ DetailFrame

\* The last-data request of fetchSensorLastData settles inside fetchSensor.
FetchSensorLastDataSettles(r, outcome) ==
  /\ r.url = "last-data" /\ r.owner = "fetchSensor"
  /\ detail' = Did([Settle(detail, r) EXCEPT
                      !.sensor = SensorAfterFetch(detail.found, outcome),
                      !.loading = FALSE], "fetchSensor")
  /\ sensorLastData' = IF outcome = "batch" THEN Batch(LATEST)
                       ELSE IF outcome = "malformed" THEN MalformedBatch
                       ELSE sensorLastData
  /\ error' = ErrorAfter(ErrorAfter(error, outcome = "fails",
                                    "Failed to fetch sensor data from API"),
                         outcome = "malformed" /\ ~detail.found,
                         "Failed to fetch sensor data")
  /\ DetailFrame

\* The datetimes request of fetchSensorDatetimes settles.
FetchSensorDatetimesSettles(r, ok) ==
  /\ r.url = "datetimes"
  /\ detail' = Did([Settle(detail, r) EXCEPT !.datetimes = IF ok THEN Datetimes ELSE @],
                   "fetchSensorDatetimes")
  /\ error' = ErrorAfter(error, ~ok, "Failed to fetch sensor datetimes")
  /\ sensorLastData' = sensorLastData
  /\ DetailFrame

\* onClick of a datetime menu item, up to its await.
SelectDatetime(datetime) ==
  /\ PageRendered(detail)
  /\ datetime \in detail.datetimes
  /\ detail.selects < MaxSelects
  /\ detail' = Did(Issue([detail EXCEPT !.selectedDatetime = datetime, !.selects = @ + 1],
                         detail.selects + 1, "last-data?datetime", "onClick", datetime),
                   "onClick")
  /\ UNCHANGED <<sensorLastData, error>>
  /\ DetailFrame

\* The request of a datetime menu item settles.
SelectedDatetimeSettles(r, ok) ==
  /\ r.url = "last-data?datetime"
  /\ detail' = Did(Settle(detail, r), "onClick")
  /\ sensorLastData' = IF ok THEN Batch(r.arg) ELSE sensorLastData
  /\ error' = ErrorAfter(error, ~ok, "Failed to fetch sensor data for selected datetime")
  /\ DetailFrame
\* Every submission still running and every pending close timer now belongs
\* to an earlier opening of the modal.
MarkReopened(set) == {[x EXCEPT !.reopened = TRUE] : x \in set}

\* The four setters of the close handlers and of the success timer.
ModalReset(dt) ==
  [dt EXCEPT !.configModalOpen = FALSE, !.configError = "null",
             !.configSuccess = "null", !.configLoading = FALSE]

\* onClick of 'Configure Sensor': setConfigModalOpen(true); the cleanup of
\* the effect on [configModalOpen] clears the 100 ms timer.
OpenConfigModal ==
  /\ PageRendered(detail)
  /\ ~detail.configModalOpen
  /\ detail' = [detail EXCEPT !.configModalOpen = TRUE,
                              !.cleanupTimer = FALSE,
                              !.requests = {IF r.owner = "handleConfigSubmit"
                                            THEN [r EXCEPT !.reopened = TRUE] ELSE r :
                                            r \in detail.requests},
                              !.closeTimers = MarkReopened(@),
                              !.last = [fn |-> "openConfigModal", reopened |-> FALSE]]
  /\ UNCHANGED <<sensorLastData, error>>
  /\ DetailFrame

\* onClick of the backdrop, the close button or Cancel; the effect on
\* [configModalOpen] then starts its 100 ms timer.
CloseConfigModal ==
  /\ PageRendered(detail)
  /\ detail.configModalOpen
  /\ detail' = Did([ModalReset(detail) EXCEPT !.cleanupTimer = TRUE], "close")
  /\ UNCHANGED <<sensorLastData, error>>
  /\ DetailFrame

\* The 100 ms timer of the effect on [configModalOpen] fires.
CleanupTimerFires ==
  /\ detail.cleanupTimer
  /\ detail' = Did([detail EXCEPT !.configError = "null", !.configSuccess = "null",
                                  !.configLoading = FALSE, !.cleanupTimer = FALSE],
                   "cleanupTimer")
  /\ UNCHANGED <<sensorLastData, error>>
  /\ DetailFrame

\* handleConfigSubmit up to the await of the PUT; the submit button is
\* disabled while configLoading.
HandleConfigSubmit ==
  /\ PageRendered(detail)
  /\ detail.configModalOpen
  /\ ~detail.configLoading
  /\ detail.submits < MaxSubmits
  /\ detail' = Did(Issue([detail EXCEPT !.configLoading = TRUE, !.configError = "null",
                                        !.configSuccess = "null", !.submits = @ + 1],
                         detail.submits + 1, "config", "handleConfigSubmit", "none"),
                   "handleConfigSubmit")
  /\ UNCHANGED <<sensorLastData, error>>
  /\ DetailFrame

\* The PUT settles: on success setConfigSuccess and the refresh
\* fetchSensorLastData(params.id); otherwise the catch and finally blocks.
ConfigPutSettles(r, ok) ==
  /\ r.url = "config"
  /\ detail' =
       IF ok
       THEN Did([Settle(detail, r) EXCEPT
                   !.configSuccess = "Sensor configuration updated successfully!",
                   !.requests = @ \cup {[id |-> r.id, url |-> "last-data",
                                         owner |-> "handleConfigSubmit", arg |-> "none",
                                         reopened |-> r.reopened]}],
                "handleConfigSubmit")
       ELSE Did([Settle(detail, r) EXCEPT
                   !.configError = "Error updating sensor configuration",
                   !.configLoading = FALSE], "handleConfigSubmit")
  /\ UNCHANGED <<sensorLastData, error>>
  /\ DetailFrame

\* The refresh of handleConfigSubmit settles: the 1000 ms timer is started
\* and the finally block runs.
ConfigRefreshSettles(r, ok) ==
  /\ r.url = "last-data" /\ r.owner = "handleConfigSubmit"
  /\ detail' = Did([Settle(detail, r) EXCEPT
                      !.closeTimers = @ \cup {[id |-> r.id, reopened |-> r.reopened]},
                      !.configLoading = FALSE], "handleConfigSubmit")
  /\ sensorLastData' = IF ok THEN Batch(LATEST) ELSE sensorLastData
  /\ error' = ErrorAfter(error, ~ok, "Failed to fetch sensor data from API")
  /\ DetailFrame

\* The 1000 ms timer of a successful submission fires; when it closes an
\* open modal the effect on [configModalOpen] starts its 100 ms timer.
CloseTimerFires(t) ==
  /\ detail' = [ModalReset(detail) EXCEPT
                  !.closeTimers = @ \ {t},
                  !.cleanupTimer = IF detail.configModalOpen THEN TRUE ELSE @,
                  !.last = [fn |-> "closeTimer",
                            reopened |-> t.reopened /\ detail.configModalOpen]]
  /\ UNCHANGED <<sensorLastData, error>>
  /\ DetailFrame

NextDetail ==
  \/ \E r \in detail.requests, outcome \in {"found", "notFound", "throws"} :
       GetSensorByIdSettles(r, outcome)
  \/ \E r \in detail.requests, outcome \in {"batch", "malformed", "fails"} :
       FetchSensorLastDataSettles(r, outcome)
  \/ \E r \in detail.requests, ok \in BOOLEAN : FetchSensorDatetimesSettles(r, ok)
  \/ \E datetime \in Datetimes : SelectDatetime(datetime)
  \/ \E r \in detail.requests, ok \in BOOLEAN : SelectedDatetimeSettles(r, ok)
  \/ OpenConfigModal
  \/ CloseConfigModal
  \/ CleanupTimerFires
  \/ HandleConfigSubmit
  \/ \E r \in detail.requests, ok \in BOOLEAN : ConfigPutSettles(r, ok)
  \/ \E r \in detail.requests, ok \in BOOLEAN : ConfigRefreshSettles(r, ok)
  \/ \E t \in detail.closeTimers : CloseTimerFires(t)

SpecDetail == InitDetail /\ [][NextDetail]_vars

(***************************************************************************)
(* C24: in the configuration modal configError and configSuccess are never *)
(* both non-null at the same time, under every interleaving of             *)
(* submissions, PUT responses, close and reopen actions and timer firings. *)
(***************************************************************************)
C24_ErrorAndSuccessExclusive ==
  detail.mounted => ~(detail.configError # "null" /\ detail.configSuccess # "null")

\* No promise of the page is pending.
NoRequestInFlight == detail.requests = {}

(***************************************************************************)
(* C23: whenever a datetime has been selected and no request is in flight, *)
(* the batch held in sensorLastData is the response fetched for the        *)
(* currently selected datetime, under every interleaving of datetime       *)
(* selections, the initial last-data fetch, failed requests and the        *)
(* refresh done after a configuration update.                              *)
(***************************************************************************)
C23_BatchIsForSelectedDatetime ==
  (detail.mounted /\ detail.selectedDatetime # "" /\ NoRequestInFlight) =>
    sensorLastData.datetime = detail.selectedDatetime

(***************************************************************************)
(* C25: whenever the configuration modal is opened, configError and        *)
(* configSuccess are null and configLoading is false, and no timer of an   *)
(* earlier submission closes a modal that was reopened since.              *)
(***************************************************************************)
C25_ModalOpensClean ==
  detail.mounted =>
    /\ detail.last.fn = "openConfigModal" =>
         /\ detail.configError = "null"
         /\ detail.configSuccess = "null"
         /\ ~detail.configLoading
    /\ detail.last.fn = "closeTimer" => ~detail.last.reopened

(***************************************************************************)
(* C26: once the promises awaited by fetchSensor have settled, loading is  *)
(* false and sensor is non-null in every outcome, so the 'Sensor not       *)
(* found' screen is unreachable after loading has ended.                   *)
(***************************************************************************)
FetchSensorSettled == \A r \in detail.requests : r.owner # "fetchSensor"

C26_SensorSetWhenLoadingEnds ==
  detail.mounted =>
    /\ FetchSensorSettled => ~detail.loading /\ detail.sensor # "null"
    /\ ~detail.loading => detail.sensor # "null"

\* Neither the sensor nor its last data was found: the default sensor is set.
C26_Witness ==
  /\ detail.mounted
  /\ FetchSensorSettled
  /\ ~detail.found
  /\ sensorLastData = NoData
  /\ error = "Failed to fetch sensor data from API"
  /\ detail.sensor = "default"
  /\ ~detail.loading

(***************************************************************************)
(* C28: error is monotone: once any fetch has set it to a message it is    *)
(* never reset to null, whatever later fetch of last-data, datetimes or a  *)
(* selected datetime succeeds.                                             *)
(***************************************************************************)
C28_ErrorIsMonotone == [][error # "null" => error' # "null"]_vars

\* The initial last-data fetch failed; the later fetch for a selected
\* datetime succeeded and the message is still there.
C28_Witness ==
  /\ detail.mounted
  /\ error = "Failed to fetch sensor data from API"
  /\ sensorLastData = Batch("d1")
  /\ detail.selectedDatetime = "d1"
  /\ NoRequestInFlight

====
